---- MODULE Spec2Model ----
(***************************************************************************)
(* Model of shdl2ethsnarks.py: the SHDL gate/variable line parsers, the    *)
(* gate classifier predicates, parse_gates, parse_variables and main.      *)
(*                                                                         *)
(* A text line is modelled by its token structure (which keywords it       *)
(* holds, its numerals as digit sequences, whether '[' is followed by      *)
(* whitespace); the regular expressions are modelled by what they match    *)
(* and what each named group captures.                                     *)
(***************************************************************************)
EXTENDS Integers, Sequences, FiniteSets, TLC

(* ---------------------------------------------------------------------- *)
(* Bounds of the explored inputs                                           *)
(* ---------------------------------------------------------------------- *)
MaxWire == 2
MaxLines == 3
MaxVarLines == 1
MaxArgs == 2
MaxArityTok == 4

(* ---------------------------------------------------------------------- *)
(* Python values                                                           *)
(* ---------------------------------------------------------------------- *)
\* None and a present value: an optional is a sequence of length <= 1.
None == <<>>
Some(x) == <<x>>

\* int(text): decimal value of a digit sequence ("01" -> 1, "10" -> 10).
RECURSIVE int(_)
int(tok) ==
  IF tok = <<>> THEN 0
  ELSE 10 * int(SubSeq(tok, 1, Len(tok) - 1)) + tok[Len(tok)]

\* [int(_) for _ in text.split()]
RECURSIVE ints(_)
ints(toks) ==
  IF toks = <<>> THEN <<>>
  ELSE <<int(Head(toks))>> \o ints(Tail(toks))

(* ---------------------------------------------------------------------- *)
(* Gate lines                                                              *)
(* ---------------------------------------------------------------------- *)
\* kind:    "blank" (whitespace only), "junk" (neither alternative of the
\*          grammar), "input" ("<wire> input"), "gate" ("<wire> [output ]gate
\*          arity <n> table [<bits>] inputs [<wires>]")
\* pad:     '[' is followed by a whitespace character in both lists
\* comment: text after "//", "" when the line has no comment
GLine(kind, wire, is_output, arity, table, inputs, pad, comment) ==
  [kind |-> kind, wire |-> wire, is_output |-> is_output, arity |-> arity,
   table |-> table, inputs |-> inputs, pad |-> pad, comment |-> comment]

BlankLine == GLine("blank", <<>>, FALSE, <<>>, <<>>, <<>>, FALSE, "")
JunkLine == GLine("junk", <<>>, FALSE, <<>>, <<>>, <<>>, FALSE, "")
InputLine(w, c) == GLine("input", w, FALSE, <<>>, <<>>, <<>>, FALSE, c)
GateLine(w, o, a, t, i) == GLine("gate", w, o, a, t, i, TRUE, "")

IsBits(tok) == tok # <<>> /\ \A k \in 1..Len(tok) : tok[k] \in {0, 1}

\* RE_GATE_LINE.match(line): None, or the named groups of the match.  The
\* group 'table' encloses its repetition and captures the whole list; the
\* group 'inputs' is itself repeated and captures its last repetition only.
RE_GATE_LINE(line) ==
  IF line.kind = "input" /\ line.wire # <<>>
  THEN Some([wire |-> line.wire, is_output |-> None, arity |-> None,
             table |-> None, inputs |-> None, is_input |-> Some("input"),
             comment |-> IF line.comment = "" THEN None ELSE Some(line.comment)])
  ELSE IF /\ line.kind = "gate"
          /\ line.wire # <<>>
          /\ line.arity # <<>>
          /\ line.pad
          /\ Len(line.table) >= 1
          /\ \A k \in 1..Len(line.table) : IsBits(line.table[k])
          /\ Len(line.inputs) >= 1
          /\ \A k \in 1..Len(line.inputs) : line.inputs[k] # <<>>
  THEN Some([wire |-> line.wire,
             is_output |-> IF line.is_output THEN Some("output ") ELSE None,
             arity |-> Some(line.arity),
             table |-> Some(line.table),
             inputs |-> Some(<<line.inputs[Len(line.inputs)]>>),
             is_input |-> None,
             comment |-> IF line.comment = "" THEN None ELSE Some(line.comment)])
  ELSE None

(* ---------------------------------------------------------------------- *)
(* Gate                                                                    *)
(* ---------------------------------------------------------------------- *)
_GateStruct(is_input, is_output, wire, arity, table, inputs, comment) ==
  [is_input |-> is_input, is_output |-> is_output, wire |-> wire,
   arity |-> arity, table |-> table, inputs |-> inputs, comment |-> comment]

is_constant(self) == self.arity = Some(0)

is_passthru(self) == self.arity = Some(1) /\ self.table = Some(<<0, 1>>)

\* is_not with the table of is_passthru.
is_not_copied(self) == self.arity = Some(1) /\ self.table = Some(<<0, 1>>)

is_not(self) == self.arity = Some(1) /\ self.table = Some(<<1, 0>>)

\* What a function hands back to main: the dictionary or an integer.
RetDict(d) == [tag |-> "dict", dict |-> d, int |-> 0]
RetInt(n) == [tag |-> "int", dict |-> <<>>, int |-> n]
Unset == [tag |-> "unset", dict |-> <<>>, int |-> 0]

\* print(text) and print(value): one entry of stdout each.
Msg(text) == [text |-> text, value |-> Unset]
Out(text, value) == [text |-> text, value |-> value]

\* Gate.from_line(line, lineno): value is None or the Gate, printed is what
\* the call writes to stdout.
Gate_from_line(line, lineno) ==
  LET m == RE_GATE_LINE(line) IN
  IF m = None
  THEN [value |-> None, printed |-> <<Msg("Error on line "), Msg("Line: ")>>]
  ELSE
    LET g == m[1]
        comment == g.comment
        wire == int(g.wire)
        is_input == (g.is_input = Some("input"))
        arity == IF g.arity # None THEN Some(int(g.arity[1])) ELSE None
    IN
    IF arity # None /\ (arity[1] < 0 \/ arity[1] > 3)
    THEN [value |-> None,
          printed |-> <<Msg("Error on line "), Msg("Line: "),
                      Msg("Gate arity %d not supported!")>>]
    ELSE
      LET table == IF g.table # None THEN Some(ints(g.table[1])) ELSE None
          inputs == IF g.inputs # None THEN Some(ints(g.inputs[1])) ELSE None
          is_output == (g.is_output = Some("output "))
      IN
      IF ~is_input /\ Len(table[1]) # 2^(arity[1])
      THEN [value |-> None,
            printed |-> <<Msg("Error on line "), Msg("Line: "),
                        Msg("Expected table of %d bits")>>]
      ELSE [value |-> Some(_GateStruct(is_input, is_output, wire, arity,
                                       table, inputs, comment)),
            printed |-> <<>>]

(* ---------------------------------------------------------------------- *)
(* Variable lines                                                          *)
(* ---------------------------------------------------------------------- *)
\* kind:   "blank" (whitespace only) or "var"
\*         ('<party> <direction> <type> "<name>" [ <wire>+ ]')
\* closed: every wire id, the last one included, is followed by whitespace
\* tail:   text follows the closing ']'
VLine(kind, party, direction, type, name, wires, closed, tail) ==
  [kind |-> kind, party |-> party, direction |-> direction, type |-> type,
   name |-> name, wires |-> wires, closed |-> closed, tail |-> tail]

BlankVarLine == VLine("blank", "", "", "", "", <<>>, FALSE, FALSE)

\* RE_VAR_LINE.match(line): None, or the groups of the match.  match()
\* anchors at the start of the line only.  The direction is the unnamed
\* group 2.
RE_VAR_LINE(line) ==
  IF /\ line.kind = "var"
     /\ line.party \in {"Alice", "Bob"}
     /\ line.direction \in {"input", "output"}
     /\ line.type = "integer"
     /\ line.name # ""
     /\ Len(line.wires) >= 1
     /\ \A k \in 1..Len(line.wires) : line.wires[k] # <<>>
     /\ line.closed
  THEN Some([party |-> line.party, group2 |-> line.direction,
             type |-> line.type, name |-> line.name, inputs |-> line.wires])
  ELSE None

_VariableStruct(party, type, name, wires) ==
  [party |-> party, type |-> type, name |-> name, wires |-> wires]

\* Variable.from_line(line, lineno): m.group on a failed match raises
\* AttributeError.
Variable_from_line(line, lineno) ==
  LET m == RE_VAR_LINE(line) IN
  IF m = None
  THEN [raised |-> "AttributeError", value |-> None]
  ELSE [raised |-> "",
        value |-> Some(_VariableStruct(m[1].party, m[1].type, m[1].name,
                                       ints(m[1].inputs)))]

(* ---------------------------------------------------------------------- *)
(* OrderedDict: a sequence of [key, value] entries in insertion order      *)
(* ---------------------------------------------------------------------- *)
Keys(d) == {d[k].key : k \in 1..Len(d)}

\* d[key] = value: a new key is appended, an existing key keeps its place.
SetItem(d, key, value) ==
  IF key \in Keys(d)
  THEN [k \in 1..Len(d) |->
          IF d[k].key = key THEN [key |-> key, value |-> value] ELSE d[k]]
  ELSE Append(d, [key |-> key, value |-> value])

(* ---------------------------------------------------------------------- *)
(* Inputs                                                                  *)
(* ---------------------------------------------------------------------- *)
Wires == 0..MaxWire
Tok(n) == <<n>>

PASSTHRU == <<Tok(0), Tok(1)>>
NOT == <<Tok(1), Tok(0)>>
AND == <<Tok(0), Tok(0), Tok(0), Tok(1)>>

\* The wire before w, cyclically: the wire a one-input gate line reads.
Prev(w) == (w + MaxWire) % (MaxWire + 1)

\* "<b> gate arity 0 table [ <b> ] inputs [ ]"
ConstantLine(b) == GateLine(Tok(b), FALSE, Tok(0), <<Tok(b)>>, <<>>)

\* Lines a gate file may hold: blank and unparsable lines; for every wire
\* an input line, a passthru (output or not) and an inverter of the wire
\* before it; an output inverter, an AND gate, a leading-zero wire id, the
\* constant lines with and without an input wire, an arity above 3 and a
\* table too short for its arity.
FileGateLines ==
  {BlankLine, JunkLine}
    \cup {InputLine(Tok(w), "") : w \in Wires}
    \cup {GateLine(Tok(w), o, Tok(1), PASSTHRU, <<Tok(Prev(w))>>) :
            w \in Wires, o \in BOOLEAN}
    \cup {GateLine(Tok(w), FALSE, Tok(1), NOT, <<Tok(Prev(w))>>) : w \in Wires}
    \cup {GateLine(Tok(0), TRUE, Tok(1), NOT, <<Tok(Prev(0))>>),
          GateLine(Tok(0), FALSE, Tok(2), AND, <<Tok(0), Tok(1)>>),
          InputLine(<<0, 1>>, " x"),
          ConstantLine(0), ConstantLine(1),
          GateLine(Tok(MaxWire), FALSE, Tok(0), <<Tok(1)>>, <<Tok(MaxWire)>>),
          GateLine(Tok(0), FALSE, Tok(MaxArityTok), PASSTHRU, <<Tok(0)>>),
          GateLine(Tok(0), FALSE, Tok(1), <<Tok(1)>>, <<Tok(0)>>)}

\* Lines a variable file may hold.
FileVarLines ==
  {BlankVarLine,
   VLine("var", "Alice", "input", "integer", "a", <<Tok(0), Tok(1)>>, TRUE, TRUE),
   VLine("var", "Bob", "output", "integer", "b", <<Tok(1)>>, FALSE, FALSE)}

(* ---------------------------------------------------------------------- *)
(* State                                                                   *)
(* ---------------------------------------------------------------------- *)
VARIABLES
  pc,             \* position of the process
  args,           \* len(args) of main
  circuit_file,   \* lines args[0] has yielded so far, while it is open
  fmt_file,       \* lines args[1] has yielded so far
  lineno,         \* enumerate() index of the current line
  line,           \* the current line, stripped
  parsed,         \* result of from_line for the current line
  wires,          \* parse_gates: OrderedDict wire -> Gate
  variables,      \* parse_variables: OrderedDict name -> Variable
  ret,            \* value a returning function hands to main
  main_wires,     \* main: wires
  main_variables, \* main: variables
  stdout,         \* what has been printed
  exc,            \* uncaught exception, "" when none
  status          \* exit status of the process, None while it runs

vars == <<pc, args, circuit_file, fmt_file, lineno, line, parsed, wires, variables, ret,
          main_wires, main_variables, stdout, exc, status>>

locals == <<lineno, line, parsed, wires, variables>>

NoLocals ==
  /\ lineno' = 0
  /\ line' = None
  /\ parsed' = None
  /\ wires' = <<>>
  /\ variables' = <<>>

Init ==
  /\ pc = "main"
  /\ args \in 0..MaxArgs
  /\ circuit_file = <<>>
  /\ fmt_file = <<>>
  /\ lineno = 0
  /\ line = None
  /\ parsed = None
  /\ wires = <<>>
  /\ variables = <<>>
  /\ ret = Unset
  /\ main_wires = Unset
  /\ main_variables = Unset
  /\ stdout = <<>>
  /\ exc = ""
  /\ status = None

(* ---------------------------------------------------------------------- *)
(* parse_gates                                                             *)
(* ---------------------------------------------------------------------- *)
\* One iteration of the loop of parse_gates on line l with index n: the new
\* dictionary, the parsed gate, what is printed and the value returned (None
\* when the loop goes on).
\* parse_gates_iter without the test "parsed.wire in wires".
parse_gates_iter_nodup(ws, l, n) ==
  IF l.kind = "blank"
  THEN [wires |-> ws, parsed |-> None, printed |-> <<>>, ret |-> None]
  ELSE
    LET r == Gate_from_line(l, n) IN
    IF r.value = None
    THEN [wires |-> ws, parsed |-> None, printed |-> r.printed, ret |-> Some(2)]
    ELSE [wires |-> SetItem(ws, r.value[1].wire, r.value[1]),
          parsed |-> r.value, printed |-> <<>>, ret |-> None]

\* parse_gates_iter going on to the next line when from_line returns None.
parse_gates_iter_skipbad(ws, l, n) ==
  IF l.kind = "blank"
  THEN [wires |-> ws, parsed |-> None, printed |-> <<>>, ret |-> None]
  ELSE
    LET r == Gate_from_line(l, n) IN
    IF r.value = None
    THEN [wires |-> ws, parsed |-> None, printed |-> r.printed, ret |-> None]
    ELSE IF r.value[1].wire \in Keys(ws)
    THEN [wires |-> ws, parsed |-> r.value,
          printed |-> <<Msg("Error on line "), Msg("Line: "),
                        Msg("Duplicate wire: ")>>,
          ret |-> Some(3)]
    ELSE [wires |-> SetItem(ws, r.value[1].wire, r.value[1]),
          parsed |-> r.value, printed |-> <<>>, ret |-> None]

parse_gates_iter(ws, l, n) ==
  IF l.kind = "blank"
  THEN [wires |-> ws, parsed |-> None, printed |-> <<>>, ret |-> None]
  ELSE
    LET r == Gate_from_line(l, n) IN
    IF r.value = None
    THEN [wires |-> ws, parsed |-> None, printed |-> r.printed, ret |-> Some(2)]
    ELSE IF r.value[1].wire \in Keys(ws)
    THEN [wires |-> ws, parsed |-> r.value,
          printed |-> <<Msg("Error on line "), Msg("Line: "),
                      Msg("Duplicate wire: ")>>,
          ret |-> Some(3)]
    ELSE [wires |-> SetItem(ws, r.value[1].wire, r.value[1]),
          parsed |-> r.value, printed |-> <<>>, ret |-> None]

\* main with fewer than two arguments: usage message, exit status 1.
main_usage ==
  /\ pc = "main"
  /\ args < 2
  /\ stdout' = Append(stdout, Msg("Usage: shdl2ethsnarks.py <file.circuit> <file.fmt>"))
  /\ status' = Some(1)
  /\ pc' = "exit"
  /\ UNCHANGED <<args, circuit_file, fmt_file, locals, ret, main_wires,
                 main_variables, exc>>

\* main opens args[0] and calls parse_gates.
main_open_gates ==
  /\ pc = "main"
  /\ args >= 2
  /\ pc' = "parse_gates"
  /\ NoLocals
  /\ UNCHANGED <<args, circuit_file, fmt_file, ret, main_wires, main_variables,
                 stdout, exc, status>>

\* parse_gates: the file yields one more line.
parse_gates_line ==
  /\ pc = "parse_gates"
  /\ Len(circuit_file) < MaxLines
  /\ \E l \in FileGateLines :
       \E it \in {parse_gates_iter(wires, l, Len(circuit_file))} :
       /\ circuit_file' = Append(circuit_file, l)
       /\ lineno' = Len(circuit_file)
       /\ line' = Some(l)
       /\ parsed' = it.parsed
       /\ wires' = it.wires
       /\ stdout' = stdout \o it.printed
       /\ IF it.ret = None
          THEN pc' = "parse_gates" /\ ret' = ret
          ELSE pc' = "parse_gates_return" /\ ret' = RetInt(it.ret[1])
  /\ UNCHANGED <<args, fmt_file, variables, main_wires, main_variables, exc,
                 status>>

\* parse_gates: the file is exhausted, the dictionary is returned.
parse_gates_eof ==
  /\ pc = "parse_gates"
  /\ pc' = "parse_gates_return"
  /\ ret' = RetDict(wires)
  /\ UNCHANGED <<args, circuit_file, fmt_file, locals, main_wires,
                 main_variables, stdout, exc, status>>

(* ---------------------------------------------------------------------- *)
(* parse_variables                                                         *)
(* ---------------------------------------------------------------------- *)
\* main stores what parse_gates returned, whatever it is, closes args[0],
\* opens args[1] and calls parse_variables.
main_open_variables ==
  /\ pc = "parse_gates_return"
  /\ main_wires' = ret
  /\ ret' = Unset
  /\ circuit_file' = <<>>
  /\ NoLocals
  /\ pc' = "parse_variables"
  /\ UNCHANGED <<args, fmt_file, main_variables, stdout, exc, status>>

\* One iteration of the loop of parse_variables.
parse_variables_iter(vs, l, n) ==
  IF l.kind = "blank"
  THEN [variables |-> vs, raised |-> ""]
  ELSE
    LET r == Variable_from_line(l, n) IN
    IF r.raised # ""
    THEN [variables |-> vs, raised |-> r.raised]
    ELSE [variables |-> SetItem(vs, r.value[1].name, r.value[1]), raised |-> ""]

\* parse_variables: the file yields one more line; an exception of from_line
\* is caught nowhere and ends the process with status 1.
parse_variables_line ==
  /\ pc = "parse_variables"
  /\ Len(fmt_file) < MaxVarLines
  /\ \E l \in FileVarLines :
       \E it \in {parse_variables_iter(variables, l, Len(fmt_file))} :
       /\ fmt_file' = Append(fmt_file, l)
       /\ IF it.raised = ""
          THEN /\ lineno' = Len(fmt_file)
               /\ line' = Some(l)
               /\ variables' = it.variables
               /\ UNCHANGED <<pc, parsed, wires, exc, status>>
          ELSE /\ NoLocals
               /\ exc' = it.raised
               /\ status' = Some(1)
               /\ pc' = "exit"
  /\ UNCHANGED <<args, circuit_file, ret, main_wires, main_variables, stdout>>

\* parse_variables: the file is exhausted, the dictionary is returned.
parse_variables_eof ==
  /\ pc = "parse_variables"
  /\ pc' = "parse_variables_return"
  /\ ret' = RetDict(variables)
  /\ UNCHANGED <<args, circuit_file, fmt_file, locals, main_wires,
                 main_variables, stdout, exc, status>>

\* The dictionary without its passthru gates.
WithoutPassthru(r) ==
  [r EXCEPT !.dict = SelectSeq(r.dict, LAMBDA e : ~is_passthru(e.value))]

\* main_print printing the dictionary without its passthru gates.
main_print_pruned ==
  /\ pc = "parse_variables_return"
  /\ main_variables' = ret
  /\ ret' = Unset
  /\ NoLocals
  /\ stdout' = stdout \o <<Out("print(wires)", WithoutPassthru(main_wires)),
                          Out("print(variables)", ret)>>
  /\ status' = Some(0)
  /\ pc' = "exit"
  /\ UNCHANGED <<args, circuit_file, fmt_file, main_wires, exc>>

\* main prints both values and returns None: exit status 0.
main_print ==
  /\ pc = "parse_variables_return"
  /\ main_variables' = ret
  /\ ret' = Unset
  /\ NoLocals
  /\ stdout' = stdout \o <<Out("print(wires)", main_wires),
                          Out("print(variables)", ret)>>
  /\ status' = Some(0)
  /\ pc' = "exit"
  /\ UNCHANGED <<args, circuit_file, fmt_file, main_wires, exc>>

Next ==
  \/ main_usage
  \/ main_open_gates
  \/ parse_gates_line
  \/ parse_gates_eof
  \/ main_open_variables
  \/ parse_variables_line
  \/ parse_variables_eof
  \/ main_print

Spec == Init /\ [][Next]_vars

(* ---------------------------------------------------------------------- *)
(* Gate.from_line on its own                                               *)
(* ---------------------------------------------------------------------- *)
WireToks == {Tok(w) : w \in Wires} \cup {<<0, 1>>}

Tables ==
  UNION {[1..n -> {Tok(0), Tok(1)}] : n \in 0..2}
    \cup {AND,
          <<Tok(0), Tok(1), Tok(1), Tok(0)>>,
          <<Tok(0), Tok(0), Tok(0), Tok(1), Tok(0), Tok(1), Tok(1), Tok(1)>>,
          <<<<0, 1>>>>, <<<<1, 0>>>>, <<Tok(0), <<0, 1>>>>, <<Tok(2)>>}

InputLists == UNION {[1..n -> {Tok(0), Tok(MaxWire)}] : n \in 0..3}

\* Lines Gate.from_line is tried on.
GateLines ==
  {BlankLine, JunkLine}
    \cup {InputLine(w, c) : w \in WireToks, c \in {"", " x"}}
    \cup {GLine("gate", w, o, Tok(a), t, i, pad, c) :
            w \in WireToks, o \in BOOLEAN, a \in 0..MaxArityTok,
            t \in Tables, i \in InputLists, pad \in BOOLEAN, c \in {"", " x"}}

InitLine ==
  /\ pc = "from_line"
  /\ args = 0
  /\ circuit_file = <<>>
  /\ fmt_file = <<>>
  /\ lineno = 0
  /\ line \in {Some(l) : l \in GateLines}
  /\ parsed = None
  /\ wires = <<>>
  /\ variables = <<>>
  /\ ret = Unset
  /\ main_wires = Unset
  /\ main_variables = Unset
  /\ stdout = <<>>
  /\ exc = ""
  /\ status = None

\* parsed = Gate.from_line(line, lineno)
call_from_line ==
  /\ pc = "from_line"
  /\ \E r \in {Gate_from_line(line[1], lineno)} :
       /\ parsed' = r.value
       /\ stdout' = stdout \o r.printed
  /\ pc' = "from_line_return"
  /\ UNCHANGED <<args, circuit_file, fmt_file, lineno, line, wires, variables, ret,
                 main_wires, main_variables, exc, status>>

NextLine == call_from_line

SpecLine == InitLine /\ [][NextLine]_vars

(* ---------------------------------------------------------------------- *)
(* Properties                                                              *)
(* ---------------------------------------------------------------------- *)
InParseGates == pc \in {"parse_gates", "parse_gates_return"}

NonBlank(ls) == SelectSeq(ls, LAMBDA l : l.kind # "blank")

\* What Gate.from_line returns for each line of ls, None for a blank line.
RECURSIVE Parses(_)
Parses(ls) ==
  IF ls = <<>> THEN <<>>
  ELSE Parses(SubSeq(ls, 1, Len(ls) - 1))
         \o <<IF ls[Len(ls)].kind = "blank" THEN None
              ELSE Gate_from_line(ls[Len(ls)], Len(ls) - 1).value>>

\* Line k of the gate file is a gate line the parser accepts.
Defines(k) == Parses(circuit_file)[k] # None

GateAt(k) == Parses(circuit_file)[k][1]

\* C1: a line that defines a wire id an earlier line defined is the last
\* line parse_gates reads and makes it return the duplicate-wire status 3;
\* a dictionary that is returned has pairwise distinct wire ids and holds
\* exactly the gates of the non-blank lines, in file order.
C1_DuplicateWireAborts ==
  InParseGates =>
    LET ps == Parses(circuit_file)
        gs == SelectSeq(ps, LAMBDA p : p # None)
    IN
    /\ \A k \in 1..Len(ps) :
         (/\ ps[k] # None
          /\ \E j \in 1..(k - 1) : ps[j] # None /\ ps[j][1].wire = ps[k][1].wire) =>
           /\ k = Len(circuit_file)
           /\ pc = "parse_gates_return"
           /\ ret = RetInt(3)
    /\ (pc = "parse_gates_return" /\ ret.tag = "dict") =>
         /\ \A i, j \in 1..Len(ret.dict) :
              i # j => ret.dict[i].key # ret.dict[j].key
         /\ Len(gs) = Len(NonBlank(circuit_file))
         /\ Len(ret.dict) = Len(gs)
         /\ \A i \in 1..Len(ret.dict) :
              ret.dict[i] = [key |-> gs[i][1].wire, value |-> gs[i][1]]

\* The third line repeats the wire of the first, a gate line lies between.
C1_Witness ==
  /\ pc = "parse_gates_return"
  /\ ret = RetInt(3)
  /\ Len(circuit_file) = 3
  /\ Defines(1) /\ Defines(2) /\ Defines(3)
  /\ GateAt(1).wire = GateAt(3).wire
  /\ GateAt(2).wire # GateAt(3).wire

\* The line does not match the grammar, or declares an arity outside 0..3,
\* or has a table whose length is not 2^arity.
BadGateLine(l) ==
  /\ l.kind # "blank"
  /\ \/ RE_GATE_LINE(l) = None
     \/ /\ l.kind = "gate"
        /\ \/ int(l.arity) \notin 0..3
           \/ Len(l.table) # 2^int(l.arity)

\* C4: a failing line is the last line parse_gates reads, makes it return
\* the status 2 and never a dictionary, and leaves in the dictionary only
\* the gates of the lines before it.
C4_ParseFailureAborts ==
  InParseGates =>
    \A k \in 1..Len(circuit_file) :
      BadGateLine(circuit_file[k]) =>
        /\ k = Len(circuit_file)
        /\ pc = "parse_gates_return"
        /\ ret = RetInt(2)
        /\ ret.tag # "dict"
        /\ Len(wires) = Len(NonBlank(SubSeq(circuit_file, 1, k - 1)))
        /\ \A i \in 1..Len(wires) :
             wires[i].value =
               Gate_from_line(NonBlank(SubSeq(circuit_file, 1, k - 1))[i], 0).value[1]

\* A table of the wrong size fails after a gate was inserted, with room for
\* more lines.
C4_Witness ==
  /\ pc = "parse_gates_return"
  /\ ret = RetInt(2)
  /\ Len(wires) >= 1
  /\ Len(circuit_file) < MaxLines
  /\ RE_GATE_LINE(circuit_file[Len(circuit_file)]) # None
  /\ BadGateLine(circuit_file[Len(circuit_file)])

\* C6: on every gate from_line returns, the three predicates are booleans,
\* no two of them hold together, and is_passthru is the same whatever
\* is_output is.
C6_ClassifierExclusive ==
  (pc = "from_line_return" /\ parsed # None) =>
    LET g == parsed[1] IN
    /\ is_constant(g) \in BOOLEAN
    /\ is_passthru(g) \in BOOLEAN
    /\ is_not(g) \in BOOLEAN
    /\ ~(is_constant(g) /\ is_passthru(g))
    /\ ~(is_constant(g) /\ is_not(g))
    /\ ~(is_passthru(g) /\ is_not(g))
    /\ is_passthru(g) = is_passthru([g EXCEPT !.is_output = ~g.is_output])

\* A passthru gate that is also an output.
C6_Witness ==
  /\ pc = "from_line_return"
  /\ parsed # None
  /\ is_passthru(parsed[1])
  /\ parsed[1].is_output

\* C2: every gate from_line returns satisfies the Gate invariant: a primary
\* input has no arity, table or inputs; any other gate has an arity in 0..3,
\* 2^arity table entries and arity input wire ids, those of the line in the
\* order written.
C2_GateInvariant ==
  (pc = "from_line_return" /\ parsed # None) =>
    LET g == parsed[1] IN
    IF g.is_input
    THEN g.arity = None /\ g.table = None /\ g.inputs = None
    ELSE /\ g.arity # None /\ g.table # None /\ g.inputs # None
         /\ g.arity[1] \in 0..3
         /\ Len(g.table[1]) = 2^(g.arity[1])
         /\ Len(g.inputs[1]) = g.arity[1]
         /\ g.inputs[1] = ints(line[1].inputs)

\* C3: from_line accepts the constant line of wire 0 and returns a gate of
\* arity 0 with a one-entry table, no inputs and is_constant true.
C3_ConstantLineAccepted ==
  (pc = "from_line_return" /\ line = Some(ConstantLine(0))) =>
    /\ parsed # None
    /\ parsed[1].arity = Some(0)
    /\ parsed[1].table = Some(<<0>>)
    /\ parsed[1].inputs \in {None, Some(<<>>)}
    /\ is_constant(parsed[1])

\* C5: the process exits with status 0 only when both files were parsed;
\* a usage error exits with status 1; once parse_gates has handed main an
\* error status the process has ended with that status (2 for a malformed
\* line, 3 for a duplicate wire), the variable file was not read and no
\* result was printed.
C5_ExitStatus ==
  /\ (pc = "exit" /\ status = Some(0)) =>
       (main_wires.tag = "dict" /\ main_variables.tag = "dict")
  /\ (pc = "exit" /\ args < 2) => status = Some(1)
  /\ main_wires.tag = "int" =>
       /\ pc = "exit"
       /\ status = Some(main_wires.int)
       /\ main_wires.int \in {2, 3}
       /\ fmt_file = <<>>
       /\ \A k \in 1..Len(stdout) :
            stdout[k].text \notin {"print(wires)", "print(variables)"}

\* The Variable stored under name n.
VariableOf(n) ==
  variables[CHOOSE k \in 1..Len(variables) : variables[k].key = n].value

\* C7: a non-blank variable line that does not match ends parse_variables
\* with an error and no variable set; a matching line yields a Variable with
\* the party, direction, type, name and wire ids of the line.
C7_VariableLine ==
  /\ (pc = "exit" /\ fmt_file # <<>>
        /\ fmt_file[Len(fmt_file)].kind # "blank"
        /\ RE_VAR_LINE(fmt_file[Len(fmt_file)]) = None) =>
       (exc # "" /\ main_variables = Unset)
  /\ (pc = "parse_variables" /\ line # None /\ line[1].kind # "blank") =>
       LET l == line[1]
           v == VariableOf(l.name)
       IN
       /\ v.party = l.party
       /\ "direction" \in DOMAIN v
       /\ v.direction = l.direction
       /\ v.type = l.type
       /\ v.name = l.name
       /\ v.wires = ints(l.wires)

\* What print(wires) wrote: the gate list the process emits.
Printed ==
  LET ks == {k \in 1..Len(stdout) : stdout[k].text = "print(wires)"} IN
  IF ks = {} THEN Unset ELSE stdout[CHOOSE k \in ks : TRUE].value

Finished == pc = "exit" /\ status = Some(0) /\ main_wires.tag = "dict"

Circuit == main_wires.dict

\* C8: for a chain C (not a passthru), B (passthru of C), A (passthru of B),
\* none of them an output, neither A nor B is in the emitted gate list.
C8_ChainResolved ==
  Finished =>
    \A a, b, c \in 1..Len(Circuit) :
      LET A == Circuit[a].value
          B == Circuit[b].value
          C == Circuit[c].value
      IN
      (/\ ~is_passthru(C)
       /\ is_passthru(B) /\ ~B.is_output /\ B.inputs = Some(<<C.wire>>)
       /\ is_passthru(A) /\ ~A.is_output /\ A.inputs = Some(<<B.wire>>)) =>
        /\ A.wire \notin Keys(Printed.dict)
        /\ B.wire \notin Keys(Printed.dict)

\* Entries i and j of the assembled circuit: an output passthru gate and the
\* output gate that defines the wire it reads.
OutputToOutput(i, j) ==
  /\ is_passthru(Circuit[i].value) /\ Circuit[i].value.is_output
  /\ Circuit[j].value.is_output
  /\ Circuit[i].value.inputs = Some(<<Circuit[j].key>>)

Entries(d) == {d[k] : k \in 1..Len(d)}

C10_PassthruEliminated ==
  Finished =>
    \A k \in 1..Len(Circuit) :
      LET g == Circuit[k].value IN
      IF is_passthru(g)
      THEN (\/ ~g.is_output
            \/ \E j \in 1..Len(Circuit) :
                 /\ g.inputs = Some(<<Circuit[j].key>>)
                 /\ ~is_passthru(Circuit[j].value)
                 /\ ~Circuit[j].value.is_output) =>
             g.wire \notin Keys(Printed.dict)
      ELSE Circuit[k] \in Entries(Printed.dict)

====
